---- MODULE Spec2Model ----
(***************************************************************************)
(* Working-Capital-Optimizer-Pro: the dashboard script src/app.py as a     *)
(* state machine.  One run of the script is a sequence of steps (pc is the *)
(* script position); a widget interaction (a new upload) reruns it from    *)
(* the top, as Streamlit does.                                             *)
(*                                                                         *)
(* Numbers.  The data frame columns are IEEE doubles.  A value is modelled *)
(* as a record [k, n, d]: k = "fin" is the exact rational n/d (d > 0, in   *)
(* lowest terms), k = "inf" / "ninf" / "nan" are the IEEE specials that    *)
(* numpy produces on a division by zero.  Rounding of finite doubles is    *)
(* abstracted to exact rational arithmetic; the specials are kept exactly. *)
(***************************************************************************)
EXTENDS Integers, Sequences, FiniteSets, TLC

VARIABLES pc, uploaded_file, csv_file, df, DSO, DIO, DPO, CCC,
          metrics, current_ccc, optimized_ccc, fig_gauge,
          spc, rng, samples, first_run, sens_in

\* pc             position in the script (app.py top to bottom)
\* uploaded_file  value of st.file_uploader (app.py:22)
\* csv_file       table held by 'working capital data 600 rows.csv' (app.py:25)
\* df             the rows read by pd.read_csv (app.py:25)
\* DSO DIO DPO CCC  the derived columns of df (app.py:28-31)
\* metrics        the four st.metric values (app.py:35-38)
\* current_ccc, optimized_ccc, fig_gauge  the Optimization Target block (app.py:80-99)
\* spc, rng, samples, first_run, sens_in  state of the sensitivity pass
\*                (specification section 4.2; it has no code in app.py)

vars == <<pc, uploaded_file, csv_file, df, DSO, DIO, DPO, CCC,
          metrics, current_ccc, optimized_ccc, fig_gauge,
          spc, rng, samples, first_run, sens_in>>

dashVars == <<pc, uploaded_file, csv_file, df, DSO, DIO, DPO, CCC,
              metrics, current_ccc, optimized_ccc, fig_gauge>>

sensVars == <<spc, rng, samples, first_run, sens_in>>

----------------------------------------------------------------------------
(* Bounds of the model *)

\* longest table (number of rows) that is enumerated
MaxRows == 2

\* longest table that an upload is enumerated with
MaxUploadRows == 1

----------------------------------------------------------------------------
(* Program constants *)

\* days per year, the factor of the three ratios
DaysPerYear == 365

\* the multiplier 0.82 of the mocked optimisation, as the fraction 82/100
MockNum == 82
MockDen == 100

----------------------------------------------------------------------------
(* IEEE values *)

RECURSIVE GCD(_, _)
GCD(a, b) == IF b = 0 THEN a ELSE GCD(b, a % b)

Abs(x) == IF x < 0 THEN -x ELSE x

\* the finite value n/d, d # 0, in lowest terms with a positive denominator
Fin(n, d) ==
    LET g == GCD(Abs(n), Abs(d))
        s == IF d < 0 THEN -1 ELSE 1
    IN  [k |-> "fin", n |-> (s * n) \div g, d |-> (s * d) \div g]

Inf  == [k |-> "inf",  n |-> 0, d |-> 1]
NInf == [k |-> "ninf", n |-> 0, d |-> 1]
NaN  == [k |-> "nan",  n |-> 0, d |-> 1]
\* "no value yet": the Python name is not bound at this script position
Unset == [k |-> "unset", n |-> 0, d |-> 1]

IsFinite(v) == v.k = "fin"
IsNaN(v)    == v.k = "nan"

\* numpy true division of two integer column entries: x/0 is +-inf, 0/0 is nan
FDivInt(a, b) ==
    IF b # 0 THEN Fin(a, b)
    ELSE IF a > 0 THEN Inf
    ELSE IF a < 0 THEN NInf
    ELSE NaN

\* v * (num/den) for a positive factor num/den
FScale(v, num, den) ==
    IF IsFinite(v) THEN Fin(v.n * num, v.d * den) ELSE v

FNeg(v) ==
    CASE v.k = "fin"  -> Fin(-v.n, v.d)
      [] v.k = "inf"  -> NInf
      [] v.k = "ninf" -> Inf
      [] OTHER        -> v

FAdd(x, y) ==
    CASE IsNaN(x) \/ IsNaN(y)            -> NaN
      [] IsFinite(x) /\ IsFinite(y)      -> Fin(x.n * y.d + y.n * x.d, x.d * y.d)
      [] IsFinite(x)                     -> y
      [] IsFinite(y)                     -> x
      [] x.k = y.k                       -> x
      [] OTHER                           -> NaN

FSub(x, y) == FAdd(x, FNeg(y))

RECURSIVE FSum(_)
FSum(s) == IF s = <<>> THEN Fin(0, 1) ELSE FAdd(Head(s), FSum(Tail(s)))

NotNaNOnly(s) == SelectSeq(s, LAMBDA v : ~IsNaN(v))

\* pandas Series.mean(): skipna=True drops the NaN entries, then sum/count;
\* the mean of nothing is NaN.  Infinities are kept.
Mean(s) ==
    LET kept == NotNaNOnly(s)
        tot  == FSum(kept)
    IN  IF kept = <<>> THEN NaN
        ELSE IF IsFinite(tot) THEN Fin(tot.n, tot.d * Len(kept))
        ELSE tot

----------------------------------------------------------------------------
(* Input tables *)

Rec(s, c, ar, inv, ap) ==
    [Sales |-> s, COGS |-> c, Accounts_Receivable |-> ar,
     Inventory_Value |-> inv, Accounts_Payable |-> ap]

\* the rows a CSV file may hold: two ordinary periods, and periods whose
\* Sales or COGS is zero or negative
Rows ==
    { Rec(1000,  600, 100,  90,  80),
      Rec(2000, 1200, 150, 150, 100),
      Rec(   0,  600, 100,  90,  80),
      Rec(1000,    0,   0,  90,  80),
      Rec(   0,    0,   0,   0,   0),
      Rec(-1000, 600, 100,  90,  80) }

TablesUpTo(m) == UNION { [1..n -> Rows] : n \in 0..m }

\* the tables the fixed CSV file on disk may hold
Tables == TablesUpTo(MaxRows)

NoTable == <<>>

\* the value of st.file_uploader: None, or an UploadedFile holding a table
NoUpload == [present |-> FALSE, rows |-> NoTable]
Uploads  == {NoUpload} \cup { [present |-> TRUE, rows |-> t] : t \in TablesUpTo(MaxUploadRows) }

NoMetrics == [ccc |-> Unset, dso |-> Unset, dio |-> Unset, dpo |-> Unset]
NoGauge   == [value |-> Unset, reference |-> Unset, threshold |-> Unset]

----------------------------------------------------------------------------
(* The script *)

DashInit ==
    /\ pc = "start"
    /\ uploaded_file = NoUpload
    /\ csv_file \in Tables
    /\ df = NoTable
    /\ DSO = <<>> /\ DIO = <<>> /\ DPO = <<>> /\ CCC = <<>>
    /\ metrics = NoMetrics
    /\ current_ccc = Unset
    /\ optimized_ccc = Unset
    /\ fig_gauge = NoGauge

NoSensInput == [seeded |-> FALSE, seed |-> 0, sampleCount |-> 0,
                dso |-> 0, dio |-> 0, dpo |-> 0]
NoRun == [called |-> FALSE, in |-> NoSensInput, out |-> <<>>]

SensIdle ==
    /\ spc = "idle"
    /\ rng = 0
    /\ samples = <<>>
    /\ first_run = NoRun
    /\ sens_in = NoSensInput

Init == DashInit /\ SensIdle

\* if uploaded_file: ... else: st.info(...)
CheckUpload ==
    /\ pc = "start"
    /\ pc' = IF uploaded_file.present THEN "read" ELSE "info"
    /\ UNCHANGED <<uploaded_file, csv_file, df, DSO, DIO, DPO, CCC,
                   metrics, current_ccc, optimized_ccc, fig_gauge>>

\* the table pd.read_csv returns for the path it is given
ReadTable == csv_file

\* df = pd.read_csv('working capital data 600 rows.csv')
ReadCsv ==
    /\ pc = "read"
    /\ df' = ReadTable
    /\ pc' = "dso"
    /\ UNCHANGED <<uploaded_file, csv_file, DSO, DIO, DPO, CCC,
                   metrics, current_ccc, optimized_ccc, fig_gauge>>

ColDSO(t) == [i \in 1..Len(t) |->
                FScale(FDivInt(t[i].Accounts_Receivable, t[i].Sales), DaysPerYear, 1)]
ColDIO(t) == [i \in 1..Len(t) |->
                FScale(FDivInt(t[i].Inventory_Value, t[i].COGS), DaysPerYear, 1)]
\* (variant) DPO over Sales instead of COGS
ColDPO_OverSales(t) == [i \in 1..Len(t) |->
                FScale(FDivInt(t[i].Accounts_Payable, t[i].Sales), DaysPerYear, 1)]
ColDPO(t) == [i \in 1..Len(t) |->
                FScale(FDivInt(t[i].Accounts_Payable, t[i].COGS), DaysPerYear, 1)]
\* (variant) the payables are added instead of subtracted
ColCCC_AddsDPO(dio, dso, dpo) == [i \in 1..Len(dio) |-> FAdd(FAdd(dio[i], dso[i]), dpo[i])]
ColCCC(dio, dso, dpo) == [i \in 1..Len(dio) |-> FSub(FAdd(dio[i], dso[i]), dpo[i])]

DeriveDSO ==
    /\ pc = "dso"
    /\ DSO' = ColDSO(df)
    /\ pc' = "dio"
    /\ UNCHANGED <<uploaded_file, csv_file, df, DIO, DPO, CCC,
                   metrics, current_ccc, optimized_ccc, fig_gauge>>

DeriveDIO ==
    /\ pc = "dio"
    /\ DIO' = ColDIO(df)
    /\ pc' = "dpo"
    /\ UNCHANGED <<uploaded_file, csv_file, df, DSO, DPO, CCC,
                   metrics, current_ccc, optimized_ccc, fig_gauge>>

DeriveDPO ==
    /\ pc = "dpo"
    /\ DPO' = ColDPO(df)
    /\ pc' = "ccc"
    /\ UNCHANGED <<uploaded_file, csv_file, df, DSO, DIO, CCC,
                   metrics, current_ccc, optimized_ccc, fig_gauge>>

DeriveCCC ==
    /\ pc = "ccc"
    /\ CCC' = ColCCC(DIO, DSO, DPO)
    /\ pc' = "metrics"
    /\ UNCHANGED <<uploaded_file, csv_file, df, DSO, DIO, DPO,
                   metrics, current_ccc, optimized_ccc, fig_gauge>>

\* the four st.metric values: the column means
KeyMetrics ==
    /\ pc = "metrics"
    /\ metrics' = [ccc |-> Mean(CCC), dso |-> Mean(DSO),
                   dio |-> Mean(DIO), dpo |-> Mean(DPO)]
    /\ pc' = "gauge"
    /\ UNCHANGED <<uploaded_file, csv_file, df, DSO, DIO, DPO, CCC,
                   current_ccc, optimized_ccc, fig_gauge>>

\* optimized_ccc = current_ccc * 0.82
MockOptimized(cur) == FScale(cur, MockNum, MockDen)

\* the "Optimization Target" block: the two scalars and the gauge built on them
OptimizationTarget ==
    /\ pc = "gauge"
    /\ current_ccc' = Mean(CCC)
    /\ optimized_ccc' = MockOptimized(Mean(CCC))
    /\ fig_gauge' = [value |-> Mean(CCC),
                     reference |-> MockOptimized(Mean(CCC)),
                     threshold |-> MockOptimized(Mean(CCC))]
    /\ pc' = "done"
    /\ UNCHANGED <<uploaded_file, csv_file, df, DSO, DIO, DPO, CCC, metrics>>

\* the delta a plotly Indicator shows: value - reference ('relative': False)
GaugeDelta(g) == FSub(g.value, g.reference)

\* the user changes the upload widget once the script has finished: Streamlit
\* reruns the script from the top with fresh names
Rerun ==
    /\ pc \in {"info", "done"}
    /\ \E u \in Uploads : uploaded_file' = u
    /\ pc' = "start"
    /\ df' = NoTable
    /\ DSO' = <<>> /\ DIO' = <<>> /\ DPO' = <<>> /\ CCC' = <<>>
    /\ metrics' = NoMetrics
    /\ current_ccc' = Unset
    /\ optimized_ccc' = Unset
    /\ fig_gauge' = NoGauge
    /\ UNCHANGED csv_file

Next ==
    \/ CheckUpload /\ UNCHANGED sensVars
    \/ ReadCsv /\ UNCHANGED sensVars
    \/ DeriveDSO /\ UNCHANGED sensVars
    \/ DeriveDIO /\ UNCHANGED sensVars
    \/ DeriveDPO /\ UNCHANGED sensVars
    \/ DeriveCCC /\ UNCHANGED sensVars
    \/ KeyMetrics /\ UNCHANGED sensVars
    \/ OptimizationTarget /\ UNCHANGED sensVars
    \/ Rerun /\ UNCHANGED sensVars

Spec == Init /\ [][Next]_vars

----------------------------------------------------------------------------
(* runSensitivity: the Monte Carlo pass over an OptimizationResult.  The    *)
(* random generator is a small congruential generator: a call with a seed   *)
(* puts it in the state the seed names, a call without one leaves it in an  *)
(* arbitrary state, and every draw advances it and maps its state to a      *)
(* shock factor around 1.                                                   *)

\* most samples one call is asked for
MaxSamples == 3

\* number of generator states
RngMod == 11

RngStates == 0..(RngMod - 1)
Seeds == {1, 2}

NextRng(r) == (7 * r + 3) % RngMod

\* the shock drawn in generator state r: 0.90, 0.95, 1.00, 1.05 or 1.10
ShockOf(r) == Fin(90 + 5 * (r % 5), 100)

\* the OptimizationResults the pass is run on
OptimizationResults ==
    { [dso |-> 30, dio |-> 45, dpo |-> 60], [dso |-> 25, dio |-> 50, dpo |-> 45] }

SensInput(sd, s, n, r) ==
    [seeded |-> sd, seed |-> s, sampleCount |-> n,
     dso |-> r.dso, dio |-> r.dio, dpo |-> r.dpo]

\* a call's arguments: a result, a sample count and, optionally, a seed
SensInputs ==
    { SensInput(TRUE, s, n, r) :
        s \in Seeds, n \in 0..MaxSamples, r \in OptimizationResults }
    \cup
    { SensInput(FALSE, 0, n, r) : n \in 0..MaxSamples, r \in OptimizationResults }

\* (variant) the seed is not applied: the generator carries on from its state
SeedRng_KeepsState(in) == {rng}

\* the generator state a call starts from: the seed's, or (no seed) any
SeedRng(in) == IF in.seeded THEN {in.seed % RngMod} ELSE RngStates

\* simulatedCCC = DIO_opt*shock + DSO_opt*shock - DPO_opt
SimulatedCCC(in, shock) ==
    FSub(FAdd(FScale(Fin(in.dio, 1), shock.n, shock.d),
              FScale(Fin(in.dso, 1), shock.n, shock.d)),
         Fin(in.dpo, 1))

SensCall ==
    /\ spc = "idle"
    /\ \E in \in SensInputs :
         /\ sens_in' = in
         /\ rng' \in SeedRng(in)
    /\ samples' = <<>>
    /\ spc' = "draw"
    /\ UNCHANGED first_run

SensDraw ==
    /\ spc = "draw"
    /\ Len(samples) < sens_in.sampleCount
    /\ rng' = NextRng(rng)
    /\ samples' = Append(samples,
                         [shock |-> ShockOf(NextRng(rng)),
                          ccc |-> SimulatedCCC(sens_in, ShockOf(NextRng(rng)))])
    /\ UNCHANGED <<spc, first_run, sens_in>>

SensReturn ==
    /\ spc = "draw"
    /\ Len(samples) = sens_in.sampleCount
    /\ spc' = "returned"
    /\ UNCHANGED <<rng, samples, first_run, sens_in>>

\* the caller keeps the first call's result and calls again
SensKeep ==
    /\ spc = "returned"
    /\ ~first_run.called
    /\ first_run' = [called |-> TRUE, in |-> sens_in, out |-> samples]
    /\ spc' = "idle"
    /\ UNCHANGED <<rng, samples, sens_in>>

DashIdle ==
    /\ pc = "start"
    /\ uploaded_file = NoUpload
    /\ csv_file = NoTable
    /\ df = NoTable
    /\ DSO = <<>> /\ DIO = <<>> /\ DPO = <<>> /\ CCC = <<>>
    /\ metrics = NoMetrics
    /\ current_ccc = Unset
    /\ optimized_ccc = Unset
    /\ fig_gauge = NoGauge

SensInit ==
    /\ DashIdle
    /\ spc = "idle"
    /\ rng \in RngStates
    /\ samples = <<>>
    /\ first_run = NoRun
    /\ sens_in = NoSensInput

SensNext ==
    \/ SensCall /\ UNCHANGED dashVars
    \/ SensDraw /\ UNCHANGED dashVars
    \/ SensReturn /\ UNCHANGED dashVars
    \/ SensKeep /\ UNCHANGED dashVars

SensSpec == SensInit /\ [][SensNext]_vars

----------------------------------------------------------------------------
(* Vocabulary of the properties *)

\* a record whose two denominators are positive
Valid(r) == r.Sales > 0 /\ r.COGS > 0

\* the four derived columns are all assigned
Derived == pc \in {"metrics", "gauge", "done"}

\* the summary values are assigned
Summarised == pc \in {"gauge", "done"}

ValidRows(t) == SelectSeq(t, Valid)

\* v is finite and within 0.005 of m/1000
Near(v, m) ==
    /\ IsFinite(v)
    /\ Abs(1000 * v.n - m * v.d) <= 5 * v.d

\* the two-row table of the end-to-end scenario
ScenarioTable ==
    << Rec(1000,  600, 100,  90,  80), Rec(2000, 1200, 150, 150, 100) >>

Var(lo, hi, ge, le) == [lo |-> lo, hi |-> hi, ge |-> ge, le |-> le]

\* OptimizationBounds: per variable the box [lo, hi] and the extra
\* inequalities  >= ge  and  <= le  (equal to lo / hi where there is none)
DefaultBounds ==
    [DSO |-> Var(20, 100, 30, 100), DIO |-> Var(30, 100, 45, 100),
     DPO |-> Var(15, 150, 15, 60)]

ContradictoryBounds ==
    [DSO |-> Var(20, 100, 150, 100), DIO |-> Var(30, 100, 45, 100),
     DPO |-> Var(15, 150, 15, 60)]

LooseBounds ==
    [DSO |-> Var(25, 90, 25, 90), DIO |-> Var(40, 80, 50, 80),
     DPO |-> Var(10, 120, 10, 45)]

BoundsConfigs == {DefaultBounds, ContradictoryBounds, LooseBounds}

Max(a, b) == IF a >= b THEN a ELSE b
Min(a, b) == IF a <= b THEN a ELSE b
TightLo(v) == Max(v.lo, v.ge)
TightHi(v) == Min(v.hi, v.le)
Feasible(b) == \A x \in {"DSO", "DIO", "DPO"} : TightLo(b[x]) <= TightHi(b[x])
OptimalCCC(b) == TightLo(b.DSO) + TightLo(b.DIO) - TightHi(b.DPO)

RECURSIVE ValidOnly(_, _)
\* the entries of column col that belong to the valid rows of table t
ValidOnly(col, t) ==
    IF t = <<>> THEN <<>>
    ELSE IF Valid(Head(t)) THEN <<Head(col)>> \o ValidOnly(Tail(col), Tail(t))
    ELSE ValidOnly(Tail(col), Tail(t))

\* an outcome that is an error of the taxonomy instead of a number
IsError(v, name) == v.k = name

----------------------------------------------------------------------------
(* C7: the CCC identity on valid records *)

\* C7: for every record with Sales > 0 and COGS > 0 the derived CCC is
\* DIO + DSO - DPO with DSO = AR/Sales*365, DIO = Inventory/COGS*365 and
\* DPO = AP/COGS*365 of that same record.  The three ratios are compared by
\* cross-multiplication with the record's own fields, and so is the CCC:
\* CCC = 365 * (Inv*Sales + AR*COGS - AP*Sales) / (Sales*COGS).
C7_CCCIdentity ==
    Derived =>
      \A i \in 1..Len(df) :
        Valid(df[i]) =>
          LET r == df[i] IN
          /\ IsFinite(DSO[i]) /\ IsFinite(DIO[i]) /\ IsFinite(DPO[i]) /\ IsFinite(CCC[i])
          /\ DSO[i].n * r.Sales = DSO[i].d * 365 * r.Accounts_Receivable
          /\ DIO[i].n * r.COGS  = DIO[i].d * 365 * r.Inventory_Value
          /\ DPO[i].n * r.COGS  = DPO[i].d * 365 * r.Accounts_Payable
          /\ CCC[i].n * (r.Sales * r.COGS) =
               CCC[i].d * 365 * ( r.Inventory_Value * r.Sales
                                + r.Accounts_Receivable * r.COGS
                                - r.Accounts_Payable * r.Sales )

\* a finished run over a table that holds a valid record with a non-zero CCC
C7_Witness ==
    /\ pc = "done"
    /\ \E i \in 1..Len(df) : Valid(df[i]) /\ IsFinite(CCC[i]) /\ CCC[i].n # 0

----------------------------------------------------------------------------
(* C9: the end-to-end scenario *)

\* C9: for the two-row scenario table the derived ratios agree with the
\* stated figures to within 0.005 (row 1: DSO 36.5, DIO 54.75, DPO 48.67,
\* CCC 42.58; row 2: DSO 27.375, DIO 45.625, DPO 30.42, CCC 42.58), and the
\* summary CCC, the mean of the two rows, agrees with 42.58.
C9_Scenario ==
    /\ (Derived /\ df = ScenarioTable) =>
          /\ Near(DSO[1], 36500) /\ Near(DIO[1], 54750)
          /\ Near(DPO[1], 48670) /\ Near(CCC[1], 42580)
          /\ Near(DSO[2], 27375) /\ Near(DIO[2], 45625)
          /\ Near(DPO[2], 30420) /\ Near(CCC[2], 42580)
    /\ (Summarised /\ df = ScenarioTable) => Near(metrics.ccc, 42580)

\* a finished run whose data frame is the scenario table
C9_Witness ==
    pc = "done" /\ df = ScenarioTable /\ IsFinite(metrics.ccc)

----------------------------------------------------------------------------
(* Claims the script does not meet *)

\* C1: for every feasible OptimizationBounds the optimised CCC is the
\* minimum of DSO_opt + DIO_opt - DPO_opt, i.e. tightened lower bound of DSO
\* + tightened lower bound of DIO - tightened upper bound of DPO (15 for the
\* default configuration), whatever the baseline data.  Stated for the runs
\* whose table is non-empty and holds valid records only.
C1_OptimumAtTightenedBounds ==
    (pc = "done" /\ df # <<>> /\ ValidRows(df) = df) =>
      \A b \in BoundsConfigs :
        Feasible(b) => optimized_ccc = Fin(OptimalCCC(b), 1)

\* C2: a record with Sales <= 0 yields DivisionByZeroError for DSO, one with
\* COGS <= 0 yields it for DIO and DPO, and no derived DSO, DIO, DPO or CCC
\* is an infinity or a NaN.
C2_DivisionByZeroSignalled ==
    Derived =>
      \A i \in 1..Len(df) :
        /\ df[i].Sales <= 0 => IsError(DSO[i], "DivisionByZeroError")
        /\ df[i].COGS <= 0 => /\ IsError(DIO[i], "DivisionByZeroError")
                              /\ IsError(DPO[i], "DivisionByZeroError")
        /\ \A v \in {DSO[i], DIO[i], DPO[i], CCC[i]} :
              v.k \notin {"inf", "ninf", "nan"}

\* C3: the optimiser's outcome is InfeasibleError, and no result, exactly
\* when some variable's tightened lower bound exceeds its tightened upper
\* bound.  Stated for the runs whose table is non-empty and holds valid
\* records only.
C3_InfeasibleIffEmptyInterval ==
    (pc = "done" /\ df # <<>> /\ ValidRows(df) = df) =>
      \A b \in BoundsConfigs :
        IsError(optimized_ccc, "InfeasibleError") <=> ~Feasible(b)

\* C4: the table whose ratios are derived is the table of the upload.
C4_AnalysesTheUpload ==
    pc \in {"dso", "dio", "dpo", "ccc", "metrics", "gauge", "done"} =>
      df = uploaded_file.rows

\* C5: the summary means of DSO, DIO, DPO and CCC are the means over the
\* valid records only (the rows with a zero or negative denominator are
\* reported and take no part in any aggregate).
C5_MeansOverValidRecords ==
    (Summarised /\ ValidRows(df) # <<>>) =>
      /\ metrics.ccc = Mean(ValidOnly(CCC, df))
      /\ metrics.dso = Mean(ValidOnly(DSO, df))
      /\ metrics.dio = Mean(ValidOnly(DIO, df))
      /\ metrics.dpo = Mean(ValidOnly(DPO, df))

\* C6: summarising zero valid records yields EmptyDatasetError and no
\* summary value.
C6_EmptyDatasetError ==
    (Summarised /\ ValidRows(df) = <<>>) =>
      /\ IsError(metrics.ccc, "EmptyDatasetError")
      /\ pc = "done" => IsError(current_ccc, "EmptyDatasetError")

\* C8: the efficiency gain is baseline CCC - optimised CCC, and for the
\* scenario (baseline CCC 42.58, mean Sales 1500, default bounds, optimised
\* CCC 15) it is 27.58.
C8_EfficiencyGain ==
    pc = "done" =>
      /\ GaugeDelta(fig_gauge) = FSub(current_ccc, optimized_ccc)
      /\ (df = ScenarioTable /\ Near(current_ccc, 42580)) =>
            Near(GaugeDelta(fig_gauge), 27580)

----------------------------------------------------------------------------
(* C10: the sensitivity pass *)

\* C10: a call of runSensitivity returns exactly sampleCount samples, each
\* equal to DIO_opt*shock + DSO_opt*shock - DPO_opt for its own shock, and a
\* second call with the same seed, sampleCount and OptimizationResult
\* returns the sequence the first call returned.
C10_Sensitivity ==
    spc = "returned" =>
      /\ Len(samples) = sens_in.sampleCount
      /\ \A i \in 1..Len(samples) :
           LET x == samples[i] IN
           /\ IsFinite(x.ccc)
           /\ x.ccc.n * x.shock.d =
                x.ccc.d * ( (sens_in.dio + sens_in.dso) * x.shock.n
                          - sens_in.dpo * x.shock.d )
      /\ (first_run.called /\ sens_in.seeded /\ first_run.in = sens_in) =>
            samples = first_run.out

\* a second seeded call with the first call's inputs has returned, with at
\* least two samples drawn under different shocks
C10_Witness ==
    /\ spc = "returned"
    /\ first_run.called /\ sens_in.seeded /\ first_run.in = sens_in
    /\ Len(samples) >= 2
    /\ samples[1].shock # samples[2].shock

====
